---- MODULE Spec2Model ----
(***************************************************************************)
(* A model of the bloc created by createBloc (packages/core) together with *)
(* the four event transformers of packages/concurrency.                    *)
(*                                                                         *)
(* The JavaScript run-time is modelled by a FIFO microtask queue (mq): a   *)
(* handler is never run inside add, it is run by the microtask that        *)
(* Promise.resolve().then(...) schedules, and its completion reaches the   *)
(* transformer through a further microtask.  Callers (add, close) and the  *)
(* continuation of an awaiting handler are the environment and may act     *)
(* between any two microtasks.  The extra microtask hops by which a        *)
(* promise returned by an async handler is adopted only delay that         *)
(* notification, which the environment's freedom already covers.           *)
(*                                                                         *)
(* The registry holds the four string identifiers of the handlers object   *)
(* and, last, one entry identified by a type predicate function, as the on *)
(* method of the earlier createBloc registers them.  Subscribers of state$ *)
(* are part of the state; they act in ObservedSpec only.                   *)
(***************************************************************************)
EXTENDS Integers, Sequences, FiniteSets, TLC

\* ---------------------------------------------------------------- bounds
MaxAdds == 2        \* calls of add
MaxEmits == 2       \* values produced by the source of a pipe bloc
MaxRelayEmits == 2  \* calls of emit on the relay
MaxBurst == 3       \* calls of add on the counter

\* ------------------------------------------------------------- constants
EventTypes == {"LOG", "SAVE", "SEARCH", "SUBMIT"}   \* keys of the handlers object
UnhandledType == "U"          \* an event type with no entry in the registry
NullEvent == "NULL"           \* add(null): the predicate reads event.type and throws
Absent == 0                   \* the undefined event of a pipeline-level error record
InitialState == 0

\* an entry identified by a type predicate function that accepts the LOG and
\* the SAVE events; it is registered after the string identifiers
PredicateId == "isPersisted"
Identifiers == EventTypes \cup {PredicateId}
insertionOrder == <<"LOG", "SAVE", "SEARCH", "SUBMIT", PredicateId>>
Unhandled == "UNHANDLED"      \* the group key of events that no entry matches

\* the counter bloc: the keys of its handlers object, all plain functions;
\* the INCREMENT handler calls update(s => s + 1), the SET handler
\* update(InitialState)
CounterTypes == {"INCREMENT", "SET"}
handlerOf == [t \in CounterTypes |-> IF t = "INCREMENT" THEN "inc" ELSE "set"]

\* every key that groupBy opens a group for
GroupKeys == Identifiers \cup CounterTypes

\* the bloc with on: the identifiers given to on, and the options given with
\* each handler (handler1 is registered first, handler2 overwrites it)
OnIdentifiers == {"LOG", "SAVE"}
options == [handler1 |-> "concatMap", handler2 |-> "mergeMap"]

\* the callers of bloc.state$.subscribe.  The callback of Reactive holds a
\* context.update that a handler handed out and calls update(s => s + 1)
\* whenever it is given the state ReactOn; the callback of B only records
Subscribers == {"A", "B"}
Reactive == "A"
ReactOn == InitialState + 1

\* the rxjs operator each transformer of packages/concurrency applies
concurrent == "mergeMap"
sequential_asMerge == "mergeMap"
sequential_asExhaust == "exhaustMap"
sequential == "concatMap"
restartable_asMerge == "mergeMap"
restartable == "switchMap"
droppable_asConcat == "concatMap"
droppable == "exhaustMap"
defaultTransformer_asConcat == "concatMap"
defaultTransformer == "mergeMap"

\* createHandlerConfigEntry: the transformer of the entry built from a plain
\* function, or from an object whose transformer is given or missing ("none")
createHandlerConfigEntry(form, given) ==
  IF form = "function" THEN defaultTransformer
  ELSE IF given = "none" THEN defaultTransformer ELSE given

\* the handlers object given to createBloc: LOG is a plain function, the
\* other entries are { handler, transformer } objects
transformer ==
  [t \in Identifiers |->
     CASE t = "SAVE"   -> sequential
       [] t = "SEARCH" -> restartable
       [] t = "SUBMIT" -> droppable
       [] OTHER        -> defaultTransformer]

\* the update call of a handler execution: none, or one, made either before a
\* synchronous handler ends or after an asynchronous one has awaited
UpdateOps == {"none", "inc", "keep", "set"}
LogKinds == {"addAfterClosed", "updateAfterClosed", "unhandled",
             "handlerError", "unrecoverable", "onAfterClosed"}

VARIABLES
  onError,       \* "absent" | "present": props.onError
  recorder,      \* "absent" | "present": whether the SAVE handler of
                 \* props.handlers notes the context.value it is invoked with
  handlerRegistry, \* keys of _handlerRegistry
  isClosed,      \* _isClosed
  state,         \* _stateSubject.getValue()
  stateDone,     \* _stateSubject completed
  errorsDone,    \* _errorSubject completed
  subscribed,    \* _subscription still connects _eventSubject to the pipeline
  buffer,        \* per group: events queued by concatMap
  execs,         \* one record per call of project, in call order; with a
                 \* recorder, of a SAVE execution also the state its handler
                 \* read when invoked (saw) and left when it ended (left)
  mq,            \* microtask queue
  events,        \* every event passed to _eventSubject.next, in order, with
                 \* what held of its own identifier when it arrived and,
                 \* with a recorder, of a SAVE event the state at that moment
  errors,        \* records emitted on errors$
  onErrorCalls,  \* arguments of every invocation of the onError callback
  serial,        \* the update calls made while open, applied one after another
  lastWrite,     \* the SEARCH execution that made the last state-changing
                 \* update (x = 0: it was made by another execution, or none)
  log,           \* console output, counted per kind
  calls,         \* number of add calls made so far
  observers,     \* _stateSubject.observers, in subscription order
  subs,          \* per subscriber of state$: what it has received
  registered,    \* bloc with on: per identifier the handler that on stored
                 \* last, and how many events had been added by then
  groups,        \* bloc with on: per identifier the handler held by the
                 \* config its group took from the registry, once it exists
  pipe,          \* the closure of createPipeBloc, its source and the
                 \* subscriber of its state$
  relay,         \* the relay: eventStream$, the listeners that on has
                 \* subscribed, and the emit calls made so far
  hook,          \* the component that calls useCreateBloc: its build, its
                 \* didMountRef and the cleanup its effect returned
  results        \* a transformer used on its own: the events whose projected
                 \* work it has passed an output of to its subscriber, in order

onVars == <<registered, groups>>
pipeVars == <<pipe>>
relayVars == <<relay>>
hookVars == <<hook>>
transformerVars == <<results>>

vars == <<onError, recorder, handlerRegistry, isClosed, state, stateDone,
          errorsDone, subscribed, buffer, execs, mq, events, errors,
          onErrorCalls, serial, lastWrite, log, calls, observers, subs,
          onVars, pipeVars, relayVars, hookVars, transformerVars>>

\* what an operation of the bloc made by createBloc leaves alone
outsideBloc == <<onVars, pipeVars, relayVars, hookVars, transformerVars>>

\* what an operation of the bloc with on leaves alone
outsideOn == <<pipeVars, relayVars, hookVars, transformerVars>>

\* ------------------------------------------------------------ the state cell
ApplyOp(op, s) ==
  CASE op = "inc"  -> s + 1          \* update(s => s + 1)
    [] op = "keep" -> s              \* update(s => s)
    [] op = "set"  -> InitialState   \* update(InitialState)
    [] OTHER       -> s              \* no update call

\* updateState without the _isClosed test
updateState_ignoresClosed(closed, cur, op) == ApplyOp(op, cur)

\* updateState: the state after update(op) is called when the state is cur
updateState(closed, cur, op) ==
  IF closed THEN cur ELSE ApplyOp(op, cur)

\* updateState emits on state$ only when the reference changes
emits_always(cur, next) == TRUE

emits(cur, next) == next # cur

\* ------------------------------------------------ the pipeline, functionally
\* The part of the state the dispatch pipeline reads and writes, as a record.
Cur ==
  [isClosed |-> isClosed, handlerRegistry |-> handlerRegistry,
   stateDone |-> stateDone, errorsDone |-> errorsDone,
   subscribed |-> subscribed, buffer |-> buffer, execs |-> execs, mq |-> mq,
   errors |-> errors, onErrorCalls |-> onErrorCalls, log |-> log,
   observers |-> observers, subs |-> subs]

Install(p) ==
  /\ isClosed' = p.isClosed
  /\ handlerRegistry' = p.handlerRegistry
  /\ stateDone' = p.stateDone
  /\ errorsDone' = p.errorsDone
  /\ subscribed' = p.subscribed
  /\ buffer' = p.buffer
  /\ execs' = p.execs
  /\ mq' = p.mq
  /\ errors' = p.errors
  /\ onErrorCalls' = p.onErrorCalls
  /\ log' = p.log
  /\ observers' = p.observers
  /\ subs' = p.subs

Logged(p, kind) == [p EXCEPT !.log[kind] = @ + 1]

HandlerError(x) == <<"handler", x>>
PredicateError(e) == <<"predicate", e>>
CallbackError == <<"onError", 0>>

\* a single transformer state shared by all identifiers
Active_anyGroup(p, k) == {i \in DOMAIN p.execs : p.execs[i].open}

\* inner subscriptions of group k that the transformer still listens to
Active(p, k) == {i \in DOMAIN p.execs : p.execs[i].key = k /\ p.execs[i].open}

\* a project that runs the handler inside the call, where it throws
project_inline(p, k, e) ==
  [p EXCEPT !.execs = Append(@, [ev |-> e, key |-> k, st |-> "settled",
                                  open |-> TRUE, res |-> "err",
                                  saw |-> InitialState, left |-> InitialState]),
            !.mq = Append(@, [k |-> "notify", x |-> Len(p.execs) + 1])]

\* project(event): Promise.resolve().then(handler) schedules the handler
project(p, k, e) ==
  [p EXCEPT !.execs = Append(@, [ev |-> e, key |-> k, st |-> "scheduled",
                                  open |-> TRUE, res |-> "none",
                                  saw |-> InitialState, left |-> InitialState]),
            !.mq = Append(@, [k |-> "start", x |-> Len(p.execs) + 1])]

mergeMap(p, k, e) == project(p, k, e)

concatMap(p, k, e) ==
  IF Active(p, k) # {} THEN [p EXCEPT !.buffer[k] = Append(@, e)]
  ELSE project(p, k, e)

switchMap(p, k, e) ==
  project([p EXCEPT !.execs = [i \in DOMAIN @ |->
                     IF @[i].key = k THEN [@[i] EXCEPT !.open = FALSE]
                     ELSE @[i]]], k, e)

exhaustMap(p, k, e) ==
  IF Active(p, k) # {} THEN p ELSE project(p, k, e)

\* the operator tr, applied to project, receives an event of group k
applyTransformer(tr, p, k, e) ==
  CASE tr = "mergeMap"   -> mergeMap(p, k, e)
    [] tr = "concatMap"  -> concatMap(p, k, e)
    [] tr = "switchMap"  -> switchMap(p, k, e)
    [] tr = "exhaustMap" -> exhaustMap(p, k, e)

\* config.transformer(project) applied to an event of group k
transform(p, k, e) == applyTransformer(transformer[k], p, k, e)

\* the inner observable of execution x has completed under the operator tr
innerCompleteUnder(tr, p, x) ==
  LET k == p.execs[x].key
      q == [p EXCEPT !.execs[x].open = FALSE, !.execs[x].st = "done"]
  IN IF tr = "concatMap" /\ q.buffer[k] # << >>
     THEN project([q EXCEPT !.buffer[k] = Tail(@)], k, Head(q.buffer[k]))
     ELSE q

\* the inner observable of execution x has completed
innerComplete(p, x) == innerCompleteUnder(transformer[p.execs[x].key], p, x)

\* _subscription.unsubscribe(), also what an error does on its way down
teardown(p) ==
  [p EXCEPT !.subscribed = FALSE,
            !.buffer = [k \in GroupKeys |-> << >>],
            !.execs = [i \in DOMAIN @ |-> [@[i] EXCEPT !.open = FALSE]]]

\* Subject.complete(): every current observer is told once and released
complete(sb, obs) ==
  [s \in Subscribers |->
     IF \E i \in DOMAIN obs : obs[i] = s
     THEN [sb[s] EXCEPT !.completions = @ + 1] ELSE sb[s]]

\* close that leaves the registry as it is
close_keepsRegistry(p) ==
  IF p.isClosed THEN p
  ELSE [teardown(p) EXCEPT !.isClosed = TRUE, !.stateDone = TRUE,
                           !.errorsDone = TRUE,
                           !.subs = complete(p.subs, p.observers),
                           !.observers = << >>]

\* close that toggles the flag
close_reopens(p) ==
  IF p.isClosed THEN [p EXCEPT !.isClosed = FALSE]
  ELSE [teardown(p) EXCEPT !.isClosed = TRUE, !.stateDone = TRUE,
                           !.errorsDone = TRUE, !.handlerRegistry = {},
                           !.subs = complete(p.subs, p.observers),
                           !.observers = << >>]

close(p) ==
  IF p.isClosed THEN p
  ELSE [teardown(p) EXCEPT !.isClosed = TRUE, !.stateDone = TRUE,
                           !.errorsDone = TRUE, !.handlerRegistry = {},
                           !.subs = complete(p.subs, p.observers),
                           !.observers = << >>]

\* the onError callback is invoked with (error, event)
callOnError(p, err, e) ==
  IF onError = "present"
  THEN [p EXCEPT !.onErrorCalls = Append(@, [event |-> e, error |-> err])]
  ELSE p

\* the catchError at the end of the pipeline; throws: the callback throws
pipelineCatchError(p, err, throws) ==
  LET q == callOnError(Logged(p, "unrecoverable"), err, Absent)
  IN IF onError = "present" /\ throws
     THEN teardown(q)
     ELSE close([q EXCEPT !.errors = Append(@, [event |-> Absent, error |-> err])])

\* the catchError around one handler execution
handlerCatchError(p, x, throws1, throws2) ==
  LET q == callOnError(Logged(p, "handlerError"), HandlerError(x), p.execs[x].ev)
  IN IF onError = "present" /\ throws1
     THEN pipelineCatchError(
            [q EXCEPT !.execs[x].open = FALSE, !.execs[x].st = "done"],
            CallbackError, throws2)
     ELSE innerComplete(
            [q EXCEPT !.errors = Append(@, [event |-> p.execs[x].ev,
                                            error |-> HandlerError(x)])], x)

\* config.predicate(event) of the entry registered under id
predicate(id, t) ==
  IF id = PredicateId THEN t \in {"LOG", "SAVE"} ELSE t = id

\* a scan that keeps the last entry whose predicate accepts
find_lastMatch(registry, t) ==
  LET hits == {n \in DOMAIN insertionOrder :
                 insertionOrder[n] \in registry /\ predicate(insertionOrder[n], t)}
  IN IF hits = {} THEN Unhandled
     ELSE insertionOrder[CHOOSE n \in hits : \A m \in hits : n >= m]

\* for (const config of _handlerRegistry.values()) if (config.predicate(event))
find(registry, t) ==
  LET hits == {n \in DOMAIN insertionOrder :
                 insertionOrder[n] \in registry /\ predicate(insertionOrder[n], t)}
  IN IF hits = {} THEN Unhandled
     ELSE insertionOrder[CHOOSE n \in hits : \A m \in hits : n <= m]

\* map(find config), groupBy(key), mergeMap(group => ...) for one event
dispatch(p, t, e, throws) ==
  IF ~p.subscribed THEN p
  ELSE IF t = NullEvent /\ p.handlerRegistry # {}
       THEN pipelineCatchError(p, PredicateError(e), throws)
  ELSE IF find(p.handlerRegistry, t) # Unhandled
       THEN transform(p, find(p.handlerRegistry, t), e)
  ELSE Logged(p, "unhandled")

\* ---------------------------------------------------------- the pipe bloc
\* values the source produces
SourceValues == {InitialState, InitialState + 1}

\* createPipeBloc up to the call of source$.subscribe: _stateSubject holds
\* props.initialState, _isClosed is false, _sourceSubscription and close are
\* declared further down and not yet initialised
createPipeBloc ==
  [phase |-> "constructing",     \* constructing | returned | threw
   state |-> InitialState,       \* _stateSubject.getValue()
   isClosed |-> FALSE,           \* _isClosed
   stateDone |-> FALSE,          \* _stateSubject completed
   source |-> "live",            \* live | completed | errored
   sourceSubscription |-> "unset",   \* unset | open | closed
   emitted |-> 0,                \* values the source has produced
   late |-> 0,                   \* of these, after it was unsubscribed
   adds |-> 0,                   \* calls of add
   warned |-> 0,                 \* console.warn of add
   sourceErrorLogged |-> 0,      \* console.error of the error callback
   uncaught |-> 0,               \* errors thrown by an observer callback
   errors |-> << >>,             \* what errors$ (EMPTY) has emitted
   subscribed |-> FALSE,         \* the subscriber of state$
   got |-> << >>,
   completions |-> 0]

\* _stateSubject.next(value): a BehaviorSubject stores every value it is
\* given and emits it unless it has completed
pipeNext(p, v) ==
  [p EXCEPT !.state = v,
            !.got = IF p.subscribed /\ ~p.stateDone THEN Append(@, v) ELSE @]

\* close that stays subscribed to the source
pipeClose_keepsSource(p) ==
  IF p.isClosed THEN p
  ELSE [p EXCEPT !.isClosed = TRUE, !.stateDone = TRUE,
                 !.completions = IF p.subscribed THEN @ + 1 ELSE @]

\* close of the pipe bloc
pipeClose(p) ==
  IF p.isClosed THEN p
  ELSE [p EXCEPT !.isClosed = TRUE, !.sourceSubscription = "closed",
                 !.stateDone = TRUE,
                 !.completions = IF p.subscribed THEN @ + 1 ELSE @]

\* the complete and the error callback call close().  While source$.subscribe
\* is still running, the const close (and _sourceSubscription) is not
\* initialised and the call throws a ReferenceError out of the callback;
\* rxjs reports it later, or rethrows it from subscribe when synchronous
\* error handling is switched on (rethrown)
pipeTerminate(p, rethrown) ==
  IF p.phase = "constructing"
  THEN [p EXCEPT !.uncaught = @ + 1,
                 !.phase = IF rethrown THEN "threw" ELSE @]
  ELSE pipeClose(p)

\* ------------------------------------------------------------- the relay
Topics == {"user", "cart"}
Types == {"login", "logout", "add"}
Listeners == {"L1", "L2"}     \* the callbacks given to relay.on

\* The patterns given to relay.on.  text is the pattern string, cut into its
\* names and the characters * . | { }; alts is what the pattern is documented
\* to mean: per alternative a topic (or *) and a type part that is absent, *,
\* one type or a set of types
Patterns ==
  { [text |-> <<"*">>, alts |-> {}],
    [text |-> <<"user">>,
     alts |-> {[topic |-> "user", kind |-> "absent", types |-> {}]}],
    [text |-> <<"user", "|", "cart">>,
     alts |-> {[topic |-> "user", kind |-> "absent", types |-> {}],
               [topic |-> "cart", kind |-> "absent", types |-> {}]}],
    [text |-> <<"*", ".", "login">>,
     alts |-> {[topic |-> "*", kind |-> "one", types |-> {"login"}]}],
    [text |-> <<"user", ".", "*">>,
     alts |-> {[topic |-> "user", kind |-> "any", types |-> {}]}],
    [text |-> <<"user", ".", "{", "login", "|", "logout", "}">>,
     alts |-> {[topic |-> "user", kind |-> "set", types |-> {"login", "logout"}]}],
    [text |-> <<"user", ".", "{", "login", "|", "logout", "}", "|", "cart", ".", "add">>,
     alts |-> {[topic |-> "user", kind |-> "set", types |-> {"login", "logout"}],
               [topic |-> "cart", kind |-> "one", types |-> {"add"}]}] }

\* the pattern of a listener that has not called on
NoPattern == [text |-> << >>, alts |-> {}]

\* the patterns each listener may give to on: any of them for the first, the
\* wildcard for the second
PatternsOf(l) ==
  IF l = "L1" THEN Patterns ELSE {pt \in Patterns : pt.text = <<"*">>}

\* String.prototype.split(sep): the pieces between the separators
RECURSIVE split(_, _)
split(str, sep) ==
  IF \A i \in DOMAIN str : str[i] # sep THEN <<str>>
  ELSE LET i == CHOOSE j \in DOMAIN str :
                  str[j] = sep /\ \A m \in 1..(j - 1) : str[m] # sep
       IN <<SubSeq(str, 1, i - 1)>> \o split(SubSeq(str, i + 1, Len(str)), sep)

\* pattern.match(/(?:[^{|]|\{[^}]+\})+/g) || []: the maximal runs made of
\* characters other than { and | and of whole {...} blocks
RECURSIVE splitSubPatterns(_)
splitSubPatterns(str) ==
  LET closing(i) == {j \in (i + 2)..Len(str) :
                       str[j] = "}" /\ \A m \in (i + 1)..(j - 1) : str[m] # "}"}
      RECURSIVE run(_)
      \* the end of the run that starts at position i (i - 1: no run)
      run(i) ==
        IF i > Len(str) THEN i - 1
        ELSE IF str[i] = "|" THEN i - 1
        ELSE IF str[i] = "{"
             THEN IF closing(i) = {} THEN i - 1
                  ELSE run((CHOOSE j \in closing(i) : TRUE) + 1)
        ELSE run(i + 1)
  IN IF str = << >> THEN << >>
     ELSE IF run(1) = 0 THEN splitSubPatterns(Tail(str))
     ELSE <<SubSeq(str, 1, run(1))>>
            \o splitSubPatterns(SubSeq(str, run(1) + 1, Len(str)))

\* the test of one sub-pattern; star: whether the type part "*" is a wildcard
matchesSubPattern(subPattern, topic, type, star) ==
  LET parts == split(subPattern, ".")
      topicPattern == parts[1]
      typePattern == IF Len(parts) >= 2 THEN parts[2] ELSE << >>
  IN IF topicPattern # <<"*">> /\ topicPattern # <<topic>> THEN FALSE
     ELSE IF typePattern = << >> THEN TRUE
     ELSE IF star /\ typePattern = <<"*">> THEN TRUE
     ELSE IF Head(typePattern) = "{" /\ typePattern[Len(typePattern)] = "}"
          THEN LET types == split(SubSeq(typePattern, 2, Len(typePattern) - 1), "|")
               IN \E n \in DOMAIN types : types[n] = <<type>>
     ELSE typePattern = <<type>>

\* matchesPattern of packages/relay/src/create.ts
matchesPattern(pattern, topic, type) ==
  IF pattern = <<"*">> THEN TRUE
  ELSE LET subPatterns == split(pattern, "|")
       IN \E n \in DOMAIN subPatterns :
            matchesSubPattern(subPatterns[n], topic, type, FALSE)

\* matchesPattern of the other copy of the relay (part_022)
matchesPattern_part022(pattern, topic, type) ==
  IF pattern = <<"*">> THEN TRUE
  ELSE LET subPatterns == splitSubPatterns(pattern)
       IN \E n \in DOMAIN subPatterns :
            matchesSubPattern(subPatterns[n], topic, type, TRUE)

\* filterFn of a listener, in the relay built from the given copy
filterFn(copy, pattern, topic, type) ==
  IF copy = "part_022" THEN matchesPattern_part022(pattern, topic, type)
  ELSE matchesPattern(pattern, topic, type)

\* createRelay(): the repository holds two copies of the relay
Copies == {"create.ts", "part_022"}

createRelay(c) ==
  [copy |-> c, disposed |-> FALSE, emits |-> << >>,
   listeners |-> [l \in Listeners |->
                    [pattern |-> NoPattern, subscribed |-> FALSE,
                     unsubscribed |-> FALSE, calls |-> << >>]]]

\* the function returned by on: subscription.unsubscribe(), left out
unsubscribe_leftOut(r, l) == [r EXCEPT !.listeners[l].unsubscribed = TRUE]

\* the function returned by on: subscription.unsubscribe()
unsubscribe(r, l) ==
  [r EXCEPT !.listeners[l].unsubscribed = TRUE,
            !.listeners[l].subscribed = FALSE]

\* emit: eventStream$.next({topic, event}); every subscribed listener whose filter
\* accepts is called; a completed subject delivers nothing
emit(r, topic, type) ==
  LET n == Len(r.emits) + 1
  IN [r EXCEPT
        !.emits = Append(@,
           [topic |-> topic, type |-> type, disposed |-> r.disposed,
            on |-> {l \in Listeners : r.listeners[l].pattern # NoPattern},
            gone |-> {l \in Listeners : r.listeners[l].unsubscribed}]),
        !.listeners = [l \in Listeners |->
           IF /\ ~r.disposed /\ r.listeners[l].subscribed
              /\ filterFn(r.copy, r.listeners[l].pattern.text, topic, type)
           THEN [@[l] EXCEPT !.calls = Append(@, n)] ELSE @[l]]]

\* ---------------------------------------------------------- useCreateBloc
\* the first render of a component that calls useCreateBloc: useMemo has
\* created the bloc, didMountRef is false, no effect has run.  dev: isDev of
\* the package, NODE_ENV === "development"; strict: React mounts the
\* component with the StrictMode double run of its effects
useCreateBloc(dev, strict) ==
  [isDev |-> dev, strict |-> strict, didMountRef |-> FALSE,
   phase |-> "rendered",          \* rendered | mounted | unmounted
   cleanup |-> "none"]            \* none | noop | close

\* the callback given to useEffect runs
useEffect(h) ==
  IF h.isDev /\ ~h.didMountRef
  THEN [h EXCEPT !.didMountRef = TRUE, !.cleanup = "noop"]
  ELSE [h EXCEPT !.cleanup = "close"]

\* the cleanup that the effect returned runs on the bloc
cleanup(h, p) == IF h.cleanup = "close" THEN close(p) ELSE p

\* --------------------------------------------------------------- Init
ThrowChoices == IF onError = "present" THEN BOOLEAN ELSE {FALSE}

\* the closure of createBloc when it returns, with the given registry keys
blocCreated(reg) ==
  /\ handlerRegistry = reg
  /\ isClosed = FALSE
  /\ state = InitialState
  /\ stateDone = FALSE
  /\ errorsDone = FALSE
  /\ subscribed = TRUE
  /\ buffer = [k \in GroupKeys |-> << >>]
  /\ execs = << >>
  /\ mq = << >>
  /\ events = << >>
  /\ errors = << >>
  /\ onErrorCalls = << >>
  /\ serial = InitialState
  /\ lastWrite = [x |-> 0, stale |-> FALSE]
  /\ log = [k \in LogKinds |-> 0]
  /\ calls = 0
  /\ observers = << >>
  /\ subs = [s \in Subscribers |->
              [subscribed |-> FALSE, got |-> << >>, quiet |-> FALSE,
               completions |-> 0]]
  /\ registered = [k \in OnIdentifiers |-> [handler |-> "none", since |-> 0]]
  /\ groups = [k \in OnIdentifiers |-> "none"]
  /\ results = << >>

Init ==
  /\ onError \in {"absent", "present"}
  /\ recorder = "absent"
  /\ blocCreated(Identifiers)
  /\ pipe = createPipeBloc
  /\ relay = createRelay("create.ts")
  /\ hook = useCreateBloc(FALSE, FALSE)

\* ------------------------------------------------------------- actions
\* Subject.next: the subscribers in S receive v
received(sb, S, v) ==
  [s \in Subscribers |->
     IF s \in S THEN [sb[s] EXCEPT !.got = Append(@, v)] ELSE sb[s]]

\* _stateSubject.next(v) walks the observers in subscription order.  k = 0:
\* no callback touches the bloc.  k > 0: the callback of the k-th observer
\* holds a context.update and calls it while it is being notified; w is the
\* state that call produces, emitted to every observer before the walk goes on
stateNext(sb, obs, v, k, w) ==
  LET all == {obs[i] : i \in DOMAIN obs}
      first == {obs[i] : i \in 1..k}
      a == received(sb, first, v)
      b == IF k > 0 /\ emits(v, w) THEN received(a, all, w) ELSE a
  IN received(b, all \ first, v)

\* the observer whose callback calls update during update(op), and its call
Reactors(op) ==
  IF /\ op # "none"
     /\ emits(state, updateState(isClosed, state, op))
     /\ updateState(isClosed, state, op) = ReactOn
     /\ \E i \in DOMAIN observers : observers[i] = Reactive
  THEN {i \in DOMAIN observers : observers[i] = Reactive} ELSE {0}

ReactOps(k) == IF k = 0 THEN {"none"} ELSE {"inc"}

\* what the subscribers of state$ hold after update(op) and the reaction
published(op, k, op2) ==
  LET next == updateState(isClosed, state, op)
      last == updateState(isClosed, next, op2)
  IN IF op = "none" THEN subs
     ELSE IF emits(state, next)
     THEN stateNext(subs, observers, next, k, last)
     ELSE [s \in Subscribers |->
             IF \E i \in DOMAIN observers : observers[i] = s
             THEN [subs[s] EXCEPT !.quiet = TRUE] ELSE subs[s]]

\* context.value: get value() { return _stateSubject.getValue() }
value == state

\* the handler of identifier k is the one that records
Recorded(k) == recorder = "present" /\ k = "SAVE"

\* context.value as the handler would read it had the context been built
\* when its event was added
startValue_atDispatch(x) == events[execs[x].ev].state

\* context.value as the handler of execution x reads it when it is invoked
startValue(x) == value

\* the state after the update call op of a handler and the update call op2
\* that a subscriber of state$ makes in reaction
written(op, op2) == updateState(isClosed, updateState(isClosed, state, op), op2)

\* the state the handler of execution x leaves behind when it ends
leaves(x, op, op2) ==
  IF Recorded(execs[x].key) THEN written(op, op2) ELSE execs[x].left

\* one update call made by the handler of execution x
HandlerUpdate(x, op, k, op2) ==
  LET next == updateState(isClosed, state, op)
      last == updateState(isClosed, next, op2)
  IN /\ state' = written(op, op2)
     /\ serial' = IF ~isClosed THEN ApplyOp(op2, ApplyOp(op, serial)) ELSE serial
     /\ lastWrite' = IF next # state \/ last # next
                     THEN IF execs[x].key = "SEARCH"
                          THEN [x |-> x, stale |-> ~execs[x].open]
                          ELSE [x |-> 0, stale |-> FALSE]
                     ELSE lastWrite

\* the event given to add, with what holds of its identifier at that moment:
\* inflight: a handler execution of the identifier has been scheduled or
\* started and has not ended; active: the transformer of its group still
\* listens to an inner observable; routed: the pipeline is subscribed
InFlight(k) ==
  {i \in DOMAIN execs : execs[i].key = k /\ execs[i].st \in {"scheduled", "running"}}

Arrival(t) ==
  [type |-> t, state |-> IF Recorded(t) THEN state ELSE InitialState,
   inflight |-> InFlight(t) # {},
   active |-> \E i \in DOMAIN execs : execs[i].key = t /\ execs[i].open,
   routed |-> subscribed]

\* add without the _isClosed test
add_ignoresClosed(t) ==
  /\ calls < MaxAdds
  /\ calls' = calls + 1
  /\ UNCHANGED <<onError, recorder, state, serial, lastWrite, outsideBloc>>
  /\ events' = Append(events, Arrival(t))
  /\ \E throws \in ThrowChoices :
       Install(dispatch(Cur, t, Len(events) + 1, throws))

\* bloc.add(event), called at most n times
addUpTo(n, t) ==
  /\ calls < n
  /\ calls' = calls + 1
  /\ UNCHANGED <<onError, recorder, state, serial, lastWrite, outsideBloc>>
  /\ IF isClosed
     THEN /\ Install(Logged(Cur, "addAfterClosed"))
          /\ UNCHANGED events
     ELSE /\ events' = Append(events, Arrival(t))
          /\ \E throws \in ThrowChoices :
               Install(dispatch(Cur, t, Len(events) + 1, throws))

\* bloc.add(event)
add(t) == addUpTo(MaxAdds, t)

\* bloc.close()
Close ==
  /\ Install(close(Cur))
  /\ UNCHANGED <<onError, recorder, state, serial, lastWrite, events, calls, outsideBloc>>

\* the handler of execution x is invoked, calls update(op) and ends as end
handlerRuns(x, op, end) ==
  \E k \in Reactors(op) : \E op2 \in ReactOps(k) :
       /\ HandlerUpdate(x, op, k, op2)
       /\ LET p0 == [Cur EXCEPT !.mq = Tail(@), !.subs = published(op, k, op2),
                                !.execs[x].saw = IF Recorded(execs[x].key) THEN startValue(x)
                                                 ELSE @]
              p1 == IF op # "none" /\ isClosed
                    THEN Logged(p0, "updateAfterClosed") ELSE p0
          IN Install(
               CASE end = "await"  -> [p1 EXCEPT !.execs[x].st = "running"]
                 [] end = "return" -> [p1 EXCEPT !.execs[x].st = "settled",
                                                 !.execs[x].res = "ok",
                                                 !.execs[x].left = leaves(x, op, op2),
                                                 !.mq = Append(@, [k |-> "notify", x |-> x])]
                 [] end = "throw"  -> [p1 EXCEPT !.execs[x].st = "settled",
                                                 !.execs[x].res = "err",
                                                 !.execs[x].left = leaves(x, op, op2),
                                                 !.mq = Append(@, [k |-> "notify", x |-> x])])

\* the microtask scheduled by project: the handler is invoked and either runs
\* to its end, calling update on the way, or suspends at an await
StartHandler ==
  /\ mq # << >>
  /\ Head(mq).k = "start"
  /\ \E op \in UpdateOps, end \in {"return", "throw", "await"} :
       /\ end = "await" => op = "none"
       /\ handlerRuns(Head(mq).x, op, end)
  /\ UNCHANGED <<onError, recorder, events, calls, outsideBloc>>

\* an awaiting handler continues and runs to its end
ResumeHandler(x) ==
  /\ x \in DOMAIN execs
  /\ execs[x].st = "running"
  /\ \E op \in UpdateOps, end \in {"return", "throw"} :
     \E k \in Reactors(op) : \E op2 \in ReactOps(k) :
       /\ HandlerUpdate(x, op, k, op2)
       /\ LET p0 == [Cur EXCEPT !.subs = published(op, k, op2)]
              p1 == IF op # "none" /\ isClosed
                    THEN Logged(p0, "updateAfterClosed") ELSE p0
          IN Install([p1 EXCEPT !.execs[x].st = "settled",
                                !.execs[x].res = IF end = "return" THEN "ok" ELSE "err",
                                !.execs[x].left = leaves(x, op, op2),
                                !.mq = Append(@, [k |-> "notify", x |-> x])])
  /\ UNCHANGED <<onError, recorder, events, calls, outsideBloc>>

\* from(promise) delivers the outcome to its subscriber, unless unsubscribed
Notify ==
  /\ mq # << >>
  /\ Head(mq).k = "notify"
  /\ LET x == Head(mq).x
         p0 == [Cur EXCEPT !.mq = Tail(@)]
     IN IF ~execs[x].open
        THEN Install([p0 EXCEPT !.execs[x].st = "done"])
        ELSE IF execs[x].res = "ok"
        THEN Install(innerComplete(p0, x))
        ELSE \E t1 \in ThrowChoices, t2 \in ThrowChoices :
               Install(handlerCatchError(p0, x, t1, t2))
  /\ UNCHANGED <<onError, recorder, state, serial, lastWrite, events, calls, outsideBloc>>

Next ==
  \/ \E t \in EventTypes \cup {UnhandledType, NullEvent} : add(t)
  \/ Close
  \/ StartHandler
  \/ \E x \in DOMAIN execs : ResumeHandler(x)
  \/ Notify

Spec == Init /\ [][Next]_vars

\* ------------------------------------------------ the bloc under observation
\* bloc.state$.subscribe(callback): a BehaviorSubject replays its value, a
\* completed one only completes the newcomer
Subscribe(s) ==
  /\ ~subs[s].subscribed
  /\ subs' = [subs EXCEPT ![s] =
        IF stateDone
        THEN [@ EXCEPT !.subscribed = TRUE, !.completions = @ + 1]
        ELSE [@ EXCEPT !.subscribed = TRUE, !.got = <<state>>]]
  /\ observers' = IF stateDone THEN observers ELSE Append(observers, s)
  /\ UNCHANGED <<onError, recorder, handlerRegistry, isClosed, state, stateDone,
                 errorsDone, subscribed, buffer, execs, mq, events, errors,
                 onErrorCalls, serial, lastWrite, log, calls, outsideBloc>>

\* the bloc driven with LOG events and watched by the subscribers of state$
ObservedNext ==
  \/ \E t \in {"LOG"} : add(t)
  \/ Close
  \/ StartHandler
  \/ \E x \in DOMAIN execs : ResumeHandler(x)
  \/ Notify
  \/ \E s \in Subscribers : Subscribe(s)

ObservedSpec == Init /\ [][ObservedNext]_vars

\* the bloc driven with SAVE events whose handler notes what it reads
RecordedNext ==
  \/ \E t \in {"SAVE"} : add(t)
  \/ Close
  \/ StartHandler
  \/ \E x \in DOMAIN execs : ResumeHandler(x)
  \/ Notify

RecordedInit ==
  /\ onError = "absent"
  /\ recorder = "present"
  /\ blocCreated(Identifiers)
  /\ pipe = createPipeBloc
  /\ relay = createRelay("create.ts")
  /\ hook = useCreateBloc(FALSE, FALSE)

RecordedSpec == RecordedInit /\ [][RecordedNext]_vars

\* the bloc driven with SAVE events, with or without an onError callback
SequentialNext ==
  \/ \E t \in {"SAVE"} : add(t)
  \/ Close
  \/ StartHandler
  \/ \E x \in DOMAIN execs : ResumeHandler(x)
  \/ Notify

\* the run-time empties the microtask queue, and every handler that awaits
\* is resumed: every handler execution terminates
SequentialFairSpec ==
  /\ Init
  /\ [][SequentialNext]_vars
  /\ WF_vars(StartHandler)
  /\ WF_vars(Notify)
  /\ \A x \in 1..MaxAdds : WF_vars(ResumeHandler(x))

\* ----------------------------------------------- the counter under SAVE
\* The handler registered for SAVE is the increment handler: it calls
\* update(s => s + 1) once, at once or after an await, and returns.
IncStartHandler ==
  /\ StartHandler
  /\ \A x \in DOMAIN execs' : execs'[x].res # "err"
  /\ \/ state' = state + 1
     \/ \E x \in DOMAIN execs : execs[x].st = "scheduled" /\ execs'[x].st = "running"

IncResumeHandler(x) ==
  /\ ResumeHandler(x)
  /\ execs'[x].res = "ok"
  /\ state' = state + 1

\* the events are added at any moment, in particular one after another
\* before any microtask has run; the handler notes the state it reads
CounterNext ==
  \/ \E t \in {"SAVE"} : addUpTo(MaxBurst, t)
  \/ IncStartHandler
  \/ \E x \in DOMAIN execs : IncResumeHandler(x)
  \/ Notify
  \/ Subscribe("B")

CounterInit ==
  /\ onError = "absent"
  /\ recorder = "present"
  /\ blocCreated(Identifiers)
  /\ pipe = createPipeBloc
  /\ relay = createRelay("create.ts")
  /\ hook = useCreateBloc(FALSE, FALSE)

CounterSpec == CounterInit /\ [][CounterNext]_vars

\* ------------------------------------- the counter with plain handlers
\* bloc.add(event) of the counter bloc: every identifier is registered as a
\* plain function, so its group runs under the default transformer
addPlain(t) ==
  /\ calls < MaxBurst
  /\ calls' = calls + 1
  /\ UNCHANGED <<onError, recorder, state, serial, lastWrite, outsideBloc>>
  /\ IF isClosed
     THEN /\ Install(Logged(Cur, "addAfterClosed"))
          /\ UNCHANGED events
     ELSE /\ events' = Append(events, Arrival(t))
          /\ Install(applyTransformer(createHandlerConfigEntry("function", "none"),
                                      Cur, t, Len(events) + 1))

\* the handlers are synchronous: each calls update once and returns
PlainStartHandler ==
  /\ mq # << >>
  /\ Head(mq).k = "start"
  /\ handlerRuns(Head(mq).x, handlerOf[execs[Head(mq).x].key], "return")
  /\ UNCHANGED <<onError, recorder, events, calls, outsideBloc>>

\* the completion of an execution reaches the transformer of its group
PlainNotify ==
  /\ mq # << >>
  /\ Head(mq).k = "notify"
  /\ Install(innerCompleteUnder(createHandlerConfigEntry("function", "none"),
                                [Cur EXCEPT !.mq = Tail(@)], Head(mq).x))
  /\ UNCHANGED <<onError, recorder, state, serial, lastWrite, events, calls,
                 outsideBloc>>

\* the subscriber of state$ subscribes before the first event is added
PlainSubscribe ==
  /\ calls = 0
  /\ Subscribe("B")

PlainNext ==
  \/ \E t \in CounterTypes : addPlain(t)
  \/ PlainStartHandler
  \/ PlainNotify
  \/ PlainSubscribe

PlainSpec == CounterInit /\ [][PlainNext]_vars

\* --------------------------------------- restartable() used on its own
\* source$.pipe(restartable()(project)): the source emits a value
TransformerNext ==
  /\ calls < MaxBurst
  /\ calls' = calls + 1
  /\ events' = Append(events, Arrival("SEARCH"))
  /\ Install(applyTransformer(restartable, Cur, "SEARCH", Len(events) + 1))
  /\ UNCHANGED <<onError, recorder, state, serial, lastWrite, outsideBloc>>

\* the projected work begins; it produces its output at once or later
WorkStart ==
  /\ mq # << >>
  /\ Head(mq).k = "start"
  /\ \E end \in {"return", "await"} : handlerRuns(Head(mq).x, "none", end)
  /\ UNCHANGED <<onError, recorder, events, calls, outsideBloc>>

\* work that took its time produces its output
WorkEnd(x) ==
  /\ ResumeHandler(x)
  /\ state' = state
  /\ execs'[x].res = "ok"

\* the output of the work of execution x reaches switchMap, which passes it
\* on if it is still subscribed to that work
WorkOutput ==
  /\ mq # << >>
  /\ Head(mq).k = "notify"
  /\ LET x == Head(mq).x
         p0 == [Cur EXCEPT !.mq = Tail(@)]
     IN IF ~execs[x].open
        THEN /\ Install([p0 EXCEPT !.execs[x].st = "done"])
             /\ results' = results
        ELSE /\ Install(innerCompleteUnder(restartable, p0, x))
             /\ results' = Append(results, execs[x].ev)
  /\ UNCHANGED <<onError, recorder, state, serial, lastWrite, events, calls,
                 onVars, pipeVars, relayVars, hookVars>>

TransformerSpecNext ==
  \/ TransformerNext
  \/ WorkStart
  \/ \E x \in DOMAIN execs : WorkEnd(x)
  \/ WorkOutput

\* nothing has been emitted by the source yet
TransformerInit ==
  /\ onError = "absent"
  /\ recorder = "absent"
  /\ blocCreated(Identifiers)
  /\ pipe = createPipeBloc
  /\ relay = createRelay("create.ts")
  /\ hook = useCreateBloc(FALSE, FALSE)

TransformerSpec == TransformerInit /\ [][TransformerSpecNext]_vars

\* ------------------------------------------- the bloc with on (part_016)
\* The createBloc that registers handlers at run time starts with an empty
\* registry.  mergeMap((grouped$) => ...) reads _handlerRegistry.get(key) once,
\* when groupBy opens the group on the first event of the key; project and
\* config.transformer(project) of the group keep that config.
OnInit ==
  /\ onError = "absent"
  /\ recorder = "absent"
  /\ blocCreated({})
  /\ pipe = createPipeBloc
  /\ relay = createRelay("create.ts")
  /\ hook = useCreateBloc(FALSE, FALSE)

\* on without the _isClosed test
on_ignoresClosed(id) ==
  /\ registered[id].handler # "handler2"
  /\ registered' = [registered EXCEPT ![id] =
       [handler |-> IF @.handler = "none" THEN "handler1" ELSE "handler2",
        since |-> Len(events)]]
  /\ handlerRegistry' = handlerRegistry \cup {id}
  /\ UNCHANGED <<onError, recorder, isClosed, state, stateDone, errorsDone, subscribed,
                 buffer, execs, mq, events, errors, onErrorCalls, serial,
                 lastWrite, log, calls, observers, subs, groups, outsideOn>>

\* bloc.on(id, handler, options): _handlerRegistry.set(id, config); on a
\* closed bloc it warns and returns the bloc
on(id) ==
  /\ registered[id].handler # "handler2"
  /\ IF isClosed
     THEN /\ log["onAfterClosed"] < MaxAdds
          /\ log' = [log EXCEPT !["onAfterClosed"] = @ + 1]
          /\ UNCHANGED <<registered, handlerRegistry>>
     ELSE /\ registered' = [registered EXCEPT ![id] =
               [handler |-> IF @.handler = "none" THEN "handler1" ELSE "handler2",
                since |-> Len(events)]]
          /\ handlerRegistry' = handlerRegistry \cup {id}
          /\ log' = log
  /\ UNCHANGED <<onError, recorder, isClosed, state, stateDone, errorsDone, subscribed,
                 buffer, execs, mq, events, errors, onErrorCalls, serial,
                 lastWrite, calls, observers, subs, groups, outsideOn>>

\* the config of the group of key k: taken from the registry when the group
\* is opened, kept from then on
groupConfig(k) == IF groups[k] = "none" THEN registered[k].handler ELSE groups[k]

\* bloc.add(event) of the bloc with on
addOn(t) ==
  /\ calls < MaxAdds
  /\ calls' = calls + 1
  /\ UNCHANGED <<onError, recorder, state, serial, lastWrite, registered, outsideOn>>
  /\ IF isClosed
     THEN /\ Install(Logged(Cur, "addAfterClosed"))
          /\ UNCHANGED <<events, groups>>
     ELSE /\ events' = Append(events, Arrival(t))
          /\ LET k == find(handlerRegistry, t) IN
             IF k = Unhandled
             THEN /\ Install(Logged(Cur, "unhandled"))
                  /\ UNCHANGED groups
             ELSE /\ groups' = [groups EXCEPT ![k] = groupConfig(k)]
                  /\ Install(applyTransformer(options[groupConfig(k)], Cur, k,
                                              Len(events) + 1))

\* the handlers given to on return or await; they do not throw
StartHandlerOn ==
  /\ StartHandler
  /\ \A x \in DOMAIN execs' : execs'[x].res # "err"

ResumeHandlerOn(x) ==
  /\ ResumeHandler(x)
  /\ \A y \in DOMAIN execs' : execs'[y].res # "err"

\* the completion of an execution reaches the transformer of its group
NotifyOn ==
  /\ mq # << >>
  /\ Head(mq).k = "notify"
  /\ LET x == Head(mq).x
         p0 == [Cur EXCEPT !.mq = Tail(@)]
     IN IF ~execs[x].open
        THEN Install([p0 EXCEPT !.execs[x].st = "done"])
        ELSE Install(innerCompleteUnder(options[groups[execs[x].key]], p0, x))
  /\ UNCHANGED <<onError, recorder, state, serial, lastWrite, events, calls, onVars,
                 outsideOn>>

OnNext ==
  \/ \E id \in OnIdentifiers : on(id)
  \/ \E t \in OnIdentifiers : addOn(t)
  \/ Close
  \/ StartHandlerOn
  \/ \E x \in DOMAIN execs : ResumeHandlerOn(x)
  \/ NotifyOn

OnSpec == OnInit /\ [][OnNext]_vars

\* ------------------------------------------------- the pipe bloc in use
outsidePipe ==
  <<onError, recorder, handlerRegistry, isClosed, state, stateDone, errorsDone,
    subscribed, buffer, execs, mq, events, errors, onErrorCalls, serial,
    lastWrite, log, calls, observers, subs, onVars, relayVars, hookVars,
    transformerVars>>

\* the source produces a value; next: (value) => _stateSubject.next(value)
\* is called with it as long as _sourceSubscription is not unsubscribed
SourceNext(v) ==
  /\ pipe.phase # "threw"
  /\ pipe.source = "live"
  /\ pipe.emitted < MaxEmits
  /\ pipe' = IF pipe.sourceSubscription = "closed"
             THEN [pipe EXCEPT !.emitted = @ + 1, !.late = @ + 1]
             ELSE pipeNext([pipe EXCEPT !.emitted = @ + 1], v)
  /\ UNCHANGED outsidePipe

\* complete: () => { ...; close(); }
SourceComplete ==
  /\ pipe.phase # "threw"
  /\ pipe.source = "live" /\ pipe.sourceSubscription # "closed"
  /\ \E rethrown \in BOOLEAN :
       pipe' = pipeTerminate([pipe EXCEPT !.source = "completed"], rethrown)
  /\ UNCHANGED outsidePipe

\* error: (err) => { console.error(...); close(); }
SourceError ==
  /\ pipe.phase # "threw"
  /\ pipe.source = "live" /\ pipe.sourceSubscription # "closed"
  /\ \E rethrown \in BOOLEAN :
       pipe' = pipeTerminate([pipe EXCEPT !.source = "errored",
                                          !.sourceErrorLogged = @ + 1], rethrown)
  /\ UNCHANGED outsidePipe

\* source$.subscribe returns, the rest of createPipeBloc runs, the bloc is
\* handed to the caller
PipeReturn ==
  /\ pipe.phase = "constructing"
  /\ pipe' = [pipe EXCEPT !.phase = "returned",
                          !.sourceSubscription =
                             IF pipe.source = "live" THEN "open" ELSE "closed"]
  /\ UNCHANGED outsidePipe

\* bloc.add(event) of the pipe bloc
PipeAdd ==
  /\ pipe.phase = "returned"
  /\ pipe.adds < MaxAdds
  /\ pipe' = [pipe EXCEPT !.adds = @ + 1,
                          !.warned = IF pipe.isClosed THEN @ ELSE @ + 1]
  /\ UNCHANGED outsidePipe

\* bloc.close() of the pipe bloc, called by its owner
PipeClose ==
  /\ pipe.phase = "returned"
  /\ pipe' = pipeClose(pipe)
  /\ UNCHANGED outsidePipe

\* bloc.state$.subscribe(observer)
PipeSubscribe ==
  /\ pipe.phase = "returned"
  /\ ~pipe.subscribed
  /\ pipe' = IF pipe.stateDone
             THEN [pipe EXCEPT !.subscribed = TRUE, !.completions = @ + 1]
             ELSE [pipe EXCEPT !.subscribed = TRUE, !.got = <<pipe.state>>]
  /\ UNCHANGED outsidePipe

PipeNext ==
  \/ \E v \in SourceValues : SourceNext(v)
  \/ SourceComplete
  \/ SourceError
  \/ PipeReturn
  \/ PipeAdd
  \/ PipeClose
  \/ PipeSubscribe

\* the pipe bloc takes no handlers and no onError
PipeInit ==
  /\ onError = "absent"
  /\ recorder = "absent"
  /\ blocCreated(Identifiers)
  /\ pipe = createPipeBloc
  /\ relay = createRelay("create.ts")
  /\ hook = useCreateBloc(FALSE, FALSE)

PipeSpec == PipeInit /\ [][PipeNext]_vars

\* ----------------------------------------------------- the relay in use
outsideRelay ==
  <<onError, recorder, handlerRegistry, isClosed, state, stateDone, errorsDone,
    subscribed, buffer, execs, mq, events, errors, onErrorCalls, serial,
    lastWrite, log, calls, observers, subs, onVars, pipeVars, hookVars,
    transformerVars>>

\* relay.on(pattern, callback): subscribes to eventStream$; a completed
\* subject completes the newcomer at once
RelayOn(l, pt) ==
  /\ relay.listeners[l].pattern = NoPattern
  /\ relay' = [relay EXCEPT !.listeners[l].pattern = pt,
                            !.listeners[l].subscribed = ~relay.disposed]
  /\ UNCHANGED outsideRelay

\* the unsubscribe function of listener l is called
RelayUnsubscribe(l) ==
  /\ relay.listeners[l].pattern # NoPattern
  /\ ~relay.listeners[l].unsubscribed
  /\ relay' = unsubscribe(relay, l)
  /\ UNCHANGED outsideRelay

\* relay.emit(topic, event)
RelayEmit(topic, type) ==
  /\ Len(relay.emits) < MaxRelayEmits
  /\ relay' = emit(relay, topic, type)
  /\ UNCHANGED outsideRelay

\* relay.dispose(): eventStream$.complete()
RelayDispose ==
  /\ ~relay.disposed
  /\ relay' = [relay EXCEPT
                 !.disposed = TRUE,
                 !.listeners = [l \in Listeners |-> [@[l] EXCEPT !.subscribed = FALSE]]]
  /\ UNCHANGED outsideRelay

RelayNext ==
  \/ \E l \in Listeners : \E pt \in PatternsOf(l) : RelayOn(l, pt)
  \/ \E l \in Listeners : RelayUnsubscribe(l)
  \/ \E topic \in Topics, type \in Types : RelayEmit(topic, type)
  \/ RelayDispose

\* the relay of either copy
RelayInit ==
  /\ onError = "absent"
  /\ recorder = "absent"
  /\ blocCreated(Identifiers)
  /\ pipe = createPipeBloc
  /\ relay \in {createRelay(c) : c \in Copies}
  /\ hook = useCreateBloc(FALSE, FALSE)

RelaySpec == RelayInit /\ [][RelayNext]_vars

\* ------------------------------------------- the bloc inside a component
\* React commits the component: the effect runs; under the StrictMode double
\* run its cleanup and the effect run once more, in the same commit
HookMount ==
  /\ hook.phase = "rendered"
  /\ LET h1 == useEffect(hook)
         h2 == IF hook.strict THEN useEffect(h1) ELSE h1
     IN /\ hook' = [h2 EXCEPT !.phase = "mounted"]
        /\ Install(IF hook.strict THEN cleanup(h1, Cur) ELSE Cur)
  /\ UNCHANGED <<onError, recorder, state, serial, lastWrite, events, calls, onVars,
                 pipeVars, relayVars, transformerVars>>

\* React unmounts the component: the cleanup of the last effect run runs
HookUnmount ==
  /\ hook.phase = "mounted"
  /\ hook' = [hook EXCEPT !.phase = "unmounted"]
  /\ Install(cleanup(hook, Cur))
  /\ UNCHANGED <<onError, recorder, state, serial, lastWrite, events, calls, onVars,
                 pipeVars, relayVars, transformerVars>>

\* the bloc is used by the component and its children from the first render
HookNext ==
  \/ HookMount
  \/ HookUnmount
  \/ \E t \in {"LOG", "SAVE"} : add(t)
  \/ StartHandler
  \/ \E x \in DOMAIN execs : ResumeHandler(x)
  \/ Notify

HookInit ==
  /\ onError = "absent"
  /\ recorder = "absent"
  /\ blocCreated(Identifiers)
  /\ pipe = createPipeBloc
  /\ relay = createRelay("create.ts")
  /\ hook \in {useCreateBloc(dev, strict) : dev \in BOOLEAN, strict \in BOOLEAN}

HookSpec == HookInit /\ [][HookNext]_vars

\* ------------------------------------------------------------- claims
Started(i) == execs[i].st # "scheduled"
Finished(i) == execs[i].st \in {"settled", "done"}
ExecsOf(e) == {i \in DOMAIN execs : execs[i].ev = e}

C2_AtMostOneRunning ==
  Cardinality({i \in DOMAIN execs :
                 execs[i].key = "SEARCH" /\ execs[i].st = "running"}) <= 1

\* C3 (as claimed): once the handler of a later SEARCH event has ended, the
\* state is never one written by an earlier SEARCH execution after it was
\* superseded.
C3_SupersededWriteNotFinal ==
  ~ \E i, j \in DOMAIN execs :
      /\ execs[i].key = "SEARCH" /\ execs[j].key = "SEARCH" /\ i < j
      /\ Finished(j)
      /\ lastWrite.x = i /\ lastWrite.stale

\* C4: a droppable (SUBMIT) event that arrives while a SUBMIT handler
\* execution is in flight never gets a handler execution, at once or later.
C4_DroppedNeverRuns ==
  \A e \in DOMAIN events :
    (events[e].type = "SUBMIT" /\ events[e].inflight) => ExecsOf(e) = {}

\* C4 witness: a SUBMIT event arrived during an execution, and every SUBMIT
\* execution has since completed.
C4_Witness ==
  /\ \E e \in DOMAIN events : events[e].type = "SUBMIT" /\ events[e].inflight
  /\ \A i \in DOMAIN execs : execs[i].key = "SUBMIT" => execs[i].st = "done"
  /\ subscribed

\* C5 (as claimed): every LOG (parallel) event given to the open unit gets
\* exactly one handler execution, and the state is the result of applying
\* the update calls made so far one after another.
C5_ParallelAllRunSerial ==
  /\ \A e \in DOMAIN events :
       events[e].type = "LOG" => Cardinality(ExecsOf(e)) = 1
  /\ state = serial

\* C6: strategy decisions are per identifier.  An event that reaches the
\* pipeline while its own group has no active inner observable is started
\* at once, whatever is in flight for other identifiers; and an execution
\* loses its subscription before completing only through the end of the
\* whole pipeline or, under restartable, a later event of its own identifier.
C6_PerIdentifier ==
  /\ \A e \in DOMAIN events :
       (events[e].type \in EventTypes /\ events[e].routed /\ ~events[e].active)
         => ExecsOf(e) # {}
  /\ \A i \in DOMAIN execs :
       (~execs[i].open /\ execs[i].st # "done") =>
          \/ ~subscribed
          \/ /\ transformer[execs[i].key] = restartable
             /\ \E j \in DOMAIN execs : j > i /\ execs[j].key = execs[i].key

\* C6 witness: an execution of a sequential, droppable or restartable
\* identifier is suspended and never completes, while an event dispatched
\* later for another identifier has been handled to its end.
C6_Witness ==
  \E i, j \in DOMAIN execs :
    /\ i < j /\ execs[i].key # execs[j].key
    /\ transformer[execs[i].key] \in {sequential, droppable, restartable}
    /\ execs[i].st = "running" /\ execs[i].open
    /\ execs[j].st = "done" /\ subscribed

\* C7 (as claimed): the step that delivers a handler failure leaves the
\* pipeline subscribed and the unit open, and starts the event queued behind
\* the failed execution.
C7_FailureKeepsPipeline ==
  [][\A x \in DOMAIN execs :
       (execs[x].open /\ execs[x].res = "err" /\ execs[x].st = "settled"
          /\ execs'[x].st = "done")
       => /\ subscribed' /\ ~isClosed'
          /\ buffer[execs[x].key] # << >> =>
               /\ Len(execs') = Len(execs) + 1
               /\ execs'[Len(execs')].ev = Head(buffer[execs[x].key])]_vars

\* C8 (as claimed): while the unit is open, every handler failure that has
\* been processed has exactly one record on errors$, carrying its event and
\* its error; every record with an event stems from such a failure; the state
\* changes only through update calls; errors$ completes only by closing.
C8_OneRecordPerFailure ==
  /\ ~isClosed =>
       \A i \in DOMAIN execs : (execs[i].res = "err" /\ execs[i].st = "done") =>
         Cardinality({n \in DOMAIN errors :
            errors[n] = [event |-> execs[i].ev, error |-> HandlerError(i)]}) = 1
  /\ \A n \in DOMAIN errors : errors[n].event # Absent =>
       \E i \in DOMAIN execs :
         /\ execs[i].res = "err"
         /\ errors[n] = [event |-> execs[i].ev, error |-> HandlerError(i)]
  /\ state = serial
  /\ errorsDone => isClosed

\* C9 (as claimed): with an onError callback configured, the callback
\* invocations and the errors$ emissions are the same records in the same
\* order.
C9_CallbackMatchesStream ==
  onError = "present" => onErrorCalls = errors

\* C10 (as claimed): once add has returned from an event whose classification
\* threw, errors$ holds one record with an absent event and that error, the
\* callback (if any) was invoked with it, and the unit is closed with state$
\* and errors$ completed.
C10_PipelineErrorCloses ==
  \A e \in DOMAIN events : (events[e].type = NullEvent /\ events[e].routed) =>
    LET r == [event |-> Absent, error |-> PredicateError(e)] IN
    /\ Cardinality({n \in DOMAIN errors : errors[n] = r}) = 1
    /\ onError = "present" => \E n \in DOMAIN onErrorCalls : onErrorCalls[n] = r
    /\ isClosed /\ stateDone /\ errorsDone

\* C11: a call of add on a closed unit changes nothing but the console: no
\* event enters the pipeline, no handler is scheduled, the state and what the
\* subscribers of state$ hold stay as they are, errors$ and onError see nothing.
C11_AddAfterCloseNoOp ==
  [][(isClosed /\ calls' = calls + 1) =>
       /\ UNCHANGED <<state, serial, events, execs, mq, buffer, errors,
                      onErrorCalls, observers, subs, isClosed>>
       /\ log' = [log EXCEPT !["addAfterClosed"] = @ + 1]]_vars

\* C11 witness: add has been called on the closed unit.
C11_Witness == isClosed /\ log["addAfterClosed"] > 0

\* C12: a closed unit has its pipeline unsubscribed, state$ and errors$
\* completed, no observer left and an empty registry; closing it again returns
\* it as it is; every subscriber of state$ has been told of the completion
\* exactly once if the unit is closed and never if it is open.
C12_CloseIdempotent ==
  /\ isClosed =>
       /\ ~subscribed /\ stateDone /\ errorsDone
       /\ observers = << >> /\ handlerRegistry = {}
       /\ close(Cur) = Cur
  /\ \A s \in Subscribers :
       subs[s].completions =
         IF isClosed /\ subs[s].subscribed THEN 1 ELSE 0

\* C12 witness: the unit was closed while a subscriber was watching, and a
\* handler that was in flight has since ended.
C12_Witness ==
  /\ isClosed
  /\ \E s \in Subscribers : subs[s].got # << >> /\ subs[s].completions = 1
  /\ \E x \in DOMAIN execs : execs[x].st = "done"

\* C13: once the unit is closed the state never changes and the subscribers
\* of state$ receive no further value, whatever update calls follow.
C13_FrozenAfterClose ==
  [][isClosed =>
       /\ state' = state
       /\ \A s \in Subscribers : subs'[s].got = subs[s].got]_vars

\* C13 witness: a handler called update after the unit was closed, and a
\* subscriber had been watching.
C13_Witness ==
  /\ log["updateAfterClosed"] > 0
  /\ \E s \in Subscribers : subs[s].got # << >>

\* C14: Closed is terminal.  The completion of state$ and of errors$ and the
\* two warnings about use after closing are left behind only by a unit that
\* was closed, and none is ever taken back: wherever one of them is found,
\* isClosed is still true.
C14_ClosedIsTerminal ==
  (stateDone \/ errorsDone \/ handlerRegistry = {}
     \/ log["addAfterClosed"] > 0 \/ log["updateAfterClosed"] > 0) => isClosed

\* C14 witness: after the unit closed, add was refused, a handler that was in
\* flight called update, and its completion was delivered.
C14_Witness ==
  /\ isClosed /\ log["addAfterClosed"] > 0 /\ log["updateAfterClosed"] > 0
  /\ \E x \in DOMAIN execs : execs[x].st = "done"

Last(q) == q[Len(q)]
IsSuffix(a, b) ==
  Len(a) <= Len(b) /\ a = SubSeq(b, Len(b) - Len(a) + 1, Len(b))

\* C15 (as claimed): whoever has subscribed to state$ has received a value.
C15_ReplayOnSubscribe ==
  \A s \in Subscribers : subs[s].subscribed => subs[s].got # << >>

\* C16: no subscriber of state$ is given the same state twice in a row, and
\* the subscriber at the head of the observers holds the current state as the
\* last value it was given: state$ emits on the update calls that produce a
\* distinct state, and on no other.
C16_IdentityDedup ==
  /\ \A s \in Subscribers :
       \A n \in 1..(Len(subs[s].got) - 1) : subs[s].got[n] # subs[s].got[n + 1]
  /\ observers # << >> => Last(subs[observers[1]].got) = state

\* C16 witness: while a subscriber was watching, one update call produced the
\* state that was current and another produced a distinct one.
C16_Witness ==
  \E s \in Subscribers : subs[s].quiet /\ Len(subs[s].got) >= 2

\* C17 (as claimed): the last value given to every current subscriber of
\* state$ is the current state, and of two subscribers the later one has been
\* given the same values in the same order as the earlier one since it joined.
C17_EveryStateOnceInOrder ==
  /\ \A i \in DOMAIN observers : Last(subs[observers[i]].got) = state
  /\ \A s, t \in Subscribers :
       \/ IsSuffix(subs[s].got, subs[t].got)
       \/ IsSuffix(subs[t].got, subs[s].got)

\* C18 (as claimed): an event given to the open unit that no entry matches has
\* no handler execution and no record on errors$ or with onError, each such
\* event is logged once as unhandled, and the pipeline stays subscribed.
C18_UnmatchedOnlyLogged ==
  LET unmatched == {e \in DOMAIN events : events[e].type = UnhandledType} IN
  /\ \A e \in unmatched :
       /\ ExecsOf(e) = {}
       /\ \A n \in DOMAIN errors : errors[n].event # e
       /\ \A n \in DOMAIN onErrorCalls : onErrorCalls[n].event # e
  /\ log["unhandled"] = Cardinality(unmatched)
  /\ state = serial

\* C19: every event has at most one handler execution, and it runs in the
\* group of the first entry, in insertion order, whose predicate accepts the
\* event; a later entry that accepts it as well never runs for it.
C19_FirstMatchWins ==
  \A e \in DOMAIN events :
    /\ Cardinality(ExecsOf(e)) <= 1
    /\ \A i \in ExecsOf(e) :
         \E n \in DOMAIN insertionOrder :
           /\ insertionOrder[n] = execs[i].key
           /\ predicate(insertionOrder[n], events[e].type)
           /\ \A m \in 1..(n - 1) : ~predicate(insertionOrder[m], events[e].type)

\* C19 witness: a SAVE event, which the predicate entry accepts as well, has
\* been handled to its end.
C19_Witness ==
  \E i \in DOMAIN execs :
    /\ events[execs[i].ev].type = "SAVE" /\ predicate(PredicateId, "SAVE")
    /\ execs[i].st = "done" /\ execs[i].res = "ok"

\* C20 (as claimed): in the step in which a handler execution begins and runs
\* its first stretch, context.value read at the end of the stretch is the
\* state the execution began with.
C20_ValueIsSnapshot ==
  [][\A x \in DOMAIN execs :
       (execs[x].st = "scheduled" /\ execs'[x].st # "scheduled")
         => value' = state]_vars

\* C21: a call of add runs no handler.  In the step of an add call no
\* execution starts or ends, an execution the call creates is only scheduled,
\* the state stays as it is, and no record of a handler failure reaches
\* errors$ or onError: the failure of the handler is delivered by a later
\* microtask and is never thrown to the caller of add.
C21_AddNeverRunsHandler ==
  [][calls' = calls + 1 =>
       /\ \A x \in DOMAIN execs :
            execs'[x].st = execs[x].st /\ execs'[x].res = execs[x].res
       /\ \A x \in DOMAIN execs' \ DOMAIN execs :
            execs'[x].st = "scheduled" /\ execs'[x].res = "none"
       /\ state' = state
       /\ \A n \in DOMAIN errors' \ DOMAIN errors : errors'[n].event = Absent
       /\ \A n \in DOMAIN onErrorCalls' \ DOMAIN onErrorCalls :
            onErrorCalls'[n].event = Absent]_vars

\* C21 witness: a handler threw, and its failure was delivered on errors$
\* with its event after the add call had returned.
C21_Witness ==
  \E x \in DOMAIN execs :
    /\ execs[x].res = "err" /\ execs[x].st = "done"
    /\ \E n \in DOMAIN errors :
         errors[n] = [event |-> execs[x].ev, error |-> HandlerError(x)]

C23_OverwriteTakesOver ==
  \A e \in DOMAIN events :
    LET k == events[e].type IN
    (registered[k].handler = "handler2" /\ e > registered[k].since
       /\ events[e].routed)
      => /\ groups[k] = "handler2"
         /\ ExecsOf(e) # {}

\* C24 (as claimed): the subscriber of state$ of the pipe bloc is never given
\* the same value twice in a row, whatever the source produces.
C24_SourceValueDedup ==
  \A n \in 1..(Len(pipe.got) - 1) : pipe.got[n] # pipe.got[n + 1]

\* C25 (as claimed): once the source has completed or failed and
\* createPipeBloc has returned, the unit is closed and state$ is completed; a
\* failure of the source has left one entry in the diagnostic log and nothing
\* on errors$.
C25_SourceEndCloses ==
  (pipe.phase = "returned" /\ pipe.source # "live") =>
     /\ pipe.isClosed /\ pipe.stateDone
     /\ pipe.sourceErrorLogged = (IF pipe.source = "errored" THEN 1 ELSE 0)
     /\ pipe.errors = << >>

\* C26 (as claimed): the add calls of the pipe bloc have left the state to
\* the source, errors$ empty, and one warning each in the log.
C26_PipeAddOnlyWarns ==
  /\ pipe.errors = << >>
  /\ pipe.warned = pipe.adds

\* what the pattern pt is documented to accept
Accepts(pt, topic, type) ==
  \/ pt.text = <<"*">>
  \/ \E a \in pt.alts :
       /\ a.topic \in {"*", topic}
       /\ a.kind \in {"absent", "any"} \/ type \in a.types

\* listener l had called on, had not called its unsubscribe function, and the
\* relay was not disposed when emit number n was made
Listening(l, n) ==
  /\ l \in relay.emits[n].on /\ l \notin relay.emits[n].gone
  /\ ~relay.emits[n].disposed

\* the calls of listener l for emit number n
Hits(l, n) ==
  {i \in DOMAIN relay.listeners[l].calls : relay.listeners[l].calls[i] = n}

\* C27 (as claimed): a listener that was listening when (topic, event) was
\* emitted has been called for it exactly once if its pattern accepts the
\* topic and the type of the event, and not at all if not.
C27_PatternMatching ==
  \A l \in Listeners : \A n \in DOMAIN relay.emits :
    Listening(l, n) =>
      Cardinality(Hits(l, n)) =
        IF Accepts(relay.listeners[l].pattern, relay.emits[n].topic,
                   relay.emits[n].type) THEN 1 ELSE 0

\* C28: a listener is called only for an emit made while it was listening:
\* never for one made after its unsubscribe function was called, never for
\* one made after dispose.  Every listener that was listening at an emit,
\* whatever the others had done, is called exactly once if its filter accepts.
C28_UnsubscribeAndDispose ==
  \A l \in Listeners : \A n \in DOMAIN relay.emits :
    /\ Hits(l, n) # {} => Listening(l, n)
    /\ Listening(l, n) =>
         Cardinality(Hits(l, n)) =
           IF filterFn(relay.copy, relay.listeners[l].pattern.text,
                       relay.emits[n].topic, relay.emits[n].type)
           THEN 1 ELSE 0

\* C28 witness: two listeners take every event; one called its unsubscribe
\* function, the next emit reached the other one only, and an emit after
\* dispose reached neither.
C28_Witness ==
  \E l, k \in Listeners :
    /\ l # k /\ relay.listeners[l].unsubscribed /\ relay.disposed
    /\ relay.listeners[l].pattern.text = <<"*">>
    /\ relay.listeners[k].pattern.text = <<"*">>
    /\ Len(relay.emits) = 2
    /\ relay.emits[1].on = {l, k} /\ relay.emits[1].gone = {l}
    /\ ~relay.emits[1].disposed /\ relay.emits[2].disposed
    /\ relay.listeners[l].calls = << >> /\ relay.listeners[k].calls = <<1>>

\* C29 (as claimed): once the component that called useCreateBloc has
\* unmounted, its bloc is closed, whatever the build and with or without the
\* double run of the effect.
C29_ClosedOnUnmount ==
  hook.phase = "unmounted" => isClosed

\* C30: in a history of SAVE (sequential) events only, the state a handler
\* execution read when it was invoked is the state the execution of the SAVE
\* event before it had left behind when its handler ended, whatever the state
\* was when its own event was added.
C30_FreshStateAtStart ==
  (\A e \in DOMAIN events : events[e].type = "SAVE") =>
    \A i, j \in DOMAIN execs :
      (j = i + 1 /\ Started(j)) =>
         /\ Finished(i)
         /\ execs[j].saw = execs[i].left

\* C30 witness: a SAVE event was added and queued while the state was
\* still the one its predecessor then changed; its handler has started.
C30_Witness ==
  /\ \A e \in DOMAIN events : events[e].type = "SAVE"
  /\ \E i, j \in DOMAIN execs :
       /\ j = i + 1 /\ Started(j) /\ events[execs[j].ev].active
       /\ execs[i].left # events[execs[j].ev].state

\* C31 (as claimed): a droppable (SUBMIT) event given to the open unit after
\* an earlier SUBMIT execution, at a moment when the transformer of the group
\* listens to no execution any more (the earlier one has completed or
\* failed), starts a handler execution of its own.
C31_DropEndsWithExecution ==
  \A e \in DOMAIN events :
    (/\ events[e].type = "SUBMIT" /\ ~events[e].active
     /\ \E i \in DOMAIN execs : execs[i].key = "SUBMIT" /\ execs[i].ev < e)
      => ExecsOf(e) # {}

\* C32 (as claimed): an open unit has a live dispatch pipeline: as long as
\* isClosed is false the pipeline is subscribed, and every event of a
\* registered identifier that add accepted found it subscribed.
C32_OpenMeansRouted ==
  /\ ~isClosed => subscribed
  /\ \A e \in DOMAIN events : events[e].type \in EventTypes => events[e].routed

\* C33 (as claimed): on a closed unit no handler is invoked: no execution is
\* created, and an execution that was scheduled when the unit closed stays
\* scheduled for ever.
C33_NoStartAfterClose ==
  [][isClosed =>
       /\ Len(execs') = Len(execs)
       /\ \A x \in DOMAIN execs :
            execs[x].st = "scheduled" => execs'[x].st = "scheduled"]_vars

\* C34 (as claimed): when every handler execution terminates, every SAVE
\* (sequential) event that add accepted has its handler executed to its end,
\* unless the unit is closed; and no event is ever executed twice.
C34_SequentialNothingLost ==
  /\ \A n \in 1..MaxAdds :
       (Len(events) >= n /\ events[n].type = "SAVE")
         ~> (isClosed \/ \E i \in ExecsOf(n) : Finished(i))
  /\ [](\A e \in DOMAIN events : Cardinality(ExecsOf(e)) <= 1)

\* nothing is left to run: the microtask queue is empty and no handler is
\* scheduled, awaiting or waiting for its completion to be delivered
AllDone ==
  /\ mq = << >>
  /\ \A i \in DOMAIN execs : execs[i].st = "done"

\* C35: from state 0, with the increment handler under the sequential
\* strategy, once the N events given to add have all completed the state is
\* N, and a subscriber of state$ has been given, after the value replayed to
\* it when it subscribed, every later state once and in order: the one that
\* subscribed before the events holds 0, 1, ..., N.  This holds whenever the
\* events are added, so also when they are added in one synchronous burst.
C35_CounterReachesN ==
  AllDone =>
    /\ state = InitialState + Len(events)
    /\ subs["B"].got # << >> =>
         /\ \A n \in 1..(Len(subs["B"].got) - 1) :
              subs["B"].got[n + 1] = subs["B"].got[n] + 1
         /\ Last(subs["B"].got) = InitialState + Len(events)

\* C35 witness: MaxBurst events, all added before any handler had changed the
\* state and the later ones while the first was active, have completed,
\* watched from the start by a subscriber that holds MaxBurst emissions
\* after the replay.
C35_Witness ==
  /\ AllDone /\ Len(events) = MaxBurst
  /\ \A e \in DOMAIN events : events[e].type = "SAVE" /\ events[e].state = InitialState
  /\ \A e \in 2..Len(events) : events[e].active
  /\ Len(subs["B"].got) = MaxBurst + 1 /\ Head(subs["B"].got) = InitialState

\* the states state$ emits when the handlers of the events evs are applied
\* one after another, in the order of evs, starting from state s
RECURSIVE Emissions(_, _)
Emissions(evs, s) ==
  IF evs = << >> THEN << >>
  ELSE LET n == ApplyOp(handlerOf[Head(evs).type], s)
       IN (IF n # s THEN <<n>> ELSE << >>) \o Emissions(Tail(evs), n)

StartedCount == Cardinality({i \in DOMAIN execs : Started(i)})

\* C36: with synchronous handlers registered as plain functions, the
\* handlers are invoked in the order the events were added, whatever their
\* identifiers, and the subscriber of state$ has been given, after the
\* replayed initial state, exactly the states that applying the invoked
\* events in dispatch order produces: one per state-changing event.
C36_BurstInDispatchOrder ==
  /\ Len(execs) = Len(events)
  /\ \A i \in DOMAIN execs :
       /\ execs[i].ev = i
       /\ Started(i) => \A j \in 1..(i - 1) : Started(j)
  /\ subs["B"].subscribed =>
       /\ subs["B"].got = <<InitialState>>
             \o Emissions(SubSeq(events, 1, StartedCount), InitialState)
       /\ state = Last(subs["B"].got)

\* C36 witness: INCREMENT, SET and INCREMENT were added in one synchronous
\* burst (the first was still scheduled when the third arrived), all have
\* completed, and the subscriber holds the three states in dispatch order.
C36_Witness ==
  /\ AllDone /\ Len(events) = 3
  /\ events[1].type = "INCREMENT" /\ events[2].type = "SET"
  /\ events[3].type = "INCREMENT" /\ events[3].inflight
  /\ subs["B"].got = <<InitialState, InitialState + 1, InitialState,
                        InitialState + 1>>

\* the work projected for event e was still subscribed when a later event
\* arrived
Superseded(e) == e + 1 \in DOMAIN events /\ events[e + 1].active

\* C37: restartable() passes on only outputs of the work it started last.
\* No output of work that was still active when a later event arrived is
\* passed on; the output of work that was not superseded is passed on once;
\* so when all events arrive before any work completes, only the result of
\* the last event is emitted.
C37_OnlyLatestEmitted ==
  /\ \A n \in DOMAIN results : ~Superseded(results[n])
  /\ \A i \in DOMAIN execs :
       (execs[i].st = "done" /\ ~Superseded(execs[i].ev)) =>
          Cardinality({n \in DOMAIN results : results[n] = execs[i].ev}) = 1
  /\ (AllDone /\ \A e \in 2..Len(events) : events[e].active) =>
       results = IF events = << >> THEN << >> ELSE <<Len(events)>>

\* C37 witness: MaxBurst events arrived, each while the work of the one
\* before was still active; all work has ended and only the result of the
\* last event was emitted.
C37_Witness ==
  /\ AllDone /\ Len(events) = MaxBurst
  /\ \A e \in 2..Len(events) : events[e].active
  /\ results = <<MaxBurst>>

\* C38: the registry of a closed unit is empty and stays empty.  A call of
\* on on the closed unit stores no handler, leaves the registry, the state,
\* the pipeline and the subscribers as they are, and only warns.
C38_RegistryStaysEmpty ==
  [][isClosed =>
       /\ handlerRegistry = {} /\ handlerRegistry' = {}
       /\ registered' = registered
       /\ isClosed'
       /\ log'["onAfterClosed"] # log["onAfterClosed"] =>
            UNCHANGED <<state, stateDone, errorsDone, subscribed, buffer, execs,
                        mq, events, errors, groups, observers, subs>>]_vars

\* C38 witness: a handler was registered, the unit was closed, and on was
\* called on the closed unit.
C38_Witness ==
  /\ isClosed /\ log["onAfterClosed"] > 0
  /\ \E k \in OnIdentifiers : registered[k].handler # "none"
  /\ handlerRegistry = {}

\* C39: every step of a closed pipe bloc, a value produced by the source
\* included, leaves its state and what the subscriber of state$ has been
\* given as they are and the unit closed and completed; and close() on the
\* closed unit returns it as it is.
C39_PipeFrozenAfterClose ==
  [][pipe.isClosed =>
       /\ pipe'.state = pipe.state
       /\ pipe'.got = pipe.got
       /\ pipe'.isClosed /\ pipe'.stateDone
       /\ pipe'.completions = pipe.completions \/ ~pipe.subscribed
       /\ pipeClose(pipe) = pipe]_vars

\* C39 witness: the owner closed the pipe bloc while its source was live and
\* a subscriber was watching, and the source produced a value afterwards.
C39_Witness ==
  /\ pipe.isClosed /\ pipe.source = "live" /\ pipe.late > 0
  /\ pipe.subscribed /\ pipe.got # << >> /\ pipe.completions = 1

====
